---- MODULE Spec2Model ----
(***************************************************************************)
(* Model of AUViSAM.iSAM (scripts/frontend/front_end_isam.py): the loop    *)
(* that walks the prior-state checkpoints, merges the IMU and depth        *)
(* streams by timestamp and grows the factor graph and its initial values. *)
(*                                                                         *)
(* Arrays keep the 0-based indices of the source and are functions over    *)
(* 0..n-1.  The logs are static inputs loaded by __init__; the loop reads  *)
(* them strictly front to back, so the model draws the first entry of each *)
(* in Init and every later entry at the step that brings it under the      *)
(* cursor (any loaded log is one such sequence of draws).  imu_times and   *)
(* depth_times hold the entries up to the cursor;                          *)
(* an index outside their domain is past the end of the log.  Of           *)
(* iekf_times only the entries state_idx-1 and state_idx are ever read     *)
(* again, so only those are kept.  The IMU and depth timestamp tables are  *)
(* non-decreasing (the loader's contract); the prior-state timestamps are  *)
(* arbitrary.                                                              *)
(***************************************************************************)
EXTENDS Integers, Sequences, FiniteSets, TLC

\* ---------------------------------------------------------------- bounds
MaxTime == 2           \* timestamps range over 0..MaxTime
MaxImu == 5            \* longest IMU log
MaxDepth == 2          \* longest depth log

\* ------------------------------------------------------ program constants
NumCheckpoints == 10   \* while state_idx < 10

Times == 0 .. MaxTime
StateCounts == {3, NumCheckpoints}     \* lengths of the prior-state log

VARIABLES
    pc,            \* "outer": at the while of line 120; "inner": at the while
                   \* of line 167; "done": after saveGraph; "error": raised
    n_states,      \* len(self.iekf_times) = number of rows of iekf_states
    iekf_times,    \* self.iekf_times, the entries read and still readable
    imu_times,     \* self.imu_times, entries 0..imu_idx (those that exist)
    depth_times,   \* self.depth_times, entries 0..depth_idx (those that exist)
    state_idx, depth_idx, imu_idx,
    state,         \* the NavState of line 121, named by its checkpoint index
    sensor_type, sensor_time, state_time,
    pim,           \* self.pim: the measurements integrated so far, in order
    graph,         \* the NonlinearFactorGraph: factors in insertion order
    initial,       \* the Values container: key -> seed
    ops,           \* graph.add / initial.insert calls in program order
    dispatched,    \* the events handled by the inner loop, in order
    exported,      \* number of saveGraph calls
    call           \* the last evaluation of a depth factor by the solver

vars == <<pc, n_states, iekf_times, imu_times, depth_times,
          state_idx, depth_idx, imu_idx, state, sensor_type, sensor_time,
          state_time, pim, graph, initial, ops, dispatched, exported, call>>

\* ------------------------------------------------------------------ keys
X(i) == <<"x", i>>
V(i) == <<"v", i>>
B(i) == <<"b", i>>
BIAS_KEY == B(0)

\* --------------------------------------------------------- scaled numbers
\* A product t * 1e-k is kept exactly, as mantissa and decimal exponent.
Scaled(t, e) == [m |-> t, e |-> e]

RECURSIVE Pow10(_)
Pow10(n) == IF n <= 0 THEN 1 ELSE 10 * Pow10(n - 1)

MinExp(a, b) == IF a.e < b.e THEN a.e ELSE b.e
Units(a, lo) == a.m * Pow10(a.e - lo)
Greater_OrEqual(a, b) == Units(a, MinExp(a, b)) >= Units(b, MinExp(a, b))

Greater(a, b) == Units(a, MinExp(a, b)) > Units(b, MinExp(a, b))

\* ------------------------------------------------------------ small helpers
Extend(f, i, v) == [j \in DOMAIN f \cup {i} |-> IF j = i THEN v ELSE f[j]]
Only(f, k) == [j \in DOMAIN f \cap {k} |-> f[j]]
EmptyFn == [j \in {} |-> 0]
KeySet(f) == {f.keys[j] : j \in DOMAIN f.keys}

\* ---------------------------------------------------------------- factors
PriorFactorPose3(key, st) ==
    [type |-> "PriorPose", keys |-> <<key>>, state |-> st, meas |-> -1, pim |-> <<>>]
PriorFactorPoint3(key, st) ==
    [type |-> "PriorVelocity", keys |-> <<key>>, state |-> st, meas |-> -1, pim |-> <<>>]
\* the measurement bound into the closure is -1 * self.depth[d]; d names it
CustomFactor(key, d) ==
    [type |-> "Depth", keys |-> <<key>>, state |-> -1, meas |-> d, pim |-> <<>>]
\* gtsam.ImuFactor keeps its own copy of the preintegrated measurements
ImuFactor(xi, vi, xj, vj, b, p) ==
    [type |-> "Imu", keys |-> <<xi, vi, xj, vj, b>>, state |-> -1, meas |-> -1, pim |-> p]

PoseSeed(st) == [kind |-> "pose", state |-> st]
VelSeed(st) == [kind |-> "velocity", state |-> st]
BiasSeed == [kind |-> "bias", state |-> -1]

AddOp(f) == [op |-> "add", type |-> f.type, keys |-> KeySet(f)]
InsertOp(k) == [op |-> "insert", type |-> "value", keys |-> {k}]

\* -------------------------------------------------- lines 158-163, 216-221
SelectType(imu_time, depth_time) ==
    IF imu_time < depth_time THEN "imu" ELSE "depth"
SelectTime(imu_time, depth_time) ==
    IF imu_time < depth_time THEN Scaled(imu_time, -18) ELSE Scaled(depth_time, -18)

\* ------------------------------------------------------------ sensor logs
\* A sorted log of at most max entries, as far as a cursor at 0 shows it:
\* empty, or its first timestamp.
FirstTimes(max) ==
    {EmptyFn} \cup (IF max > 0 THEN {[j \in {0} |-> t] : t \in Times} ELSE {})

\* The smallest timestamp entry i of a sorted log can hold.
Floor(times, i) == IF i - 1 \in DOMAIN times THEN times[i - 1] ELSE 0

\* The same log once the cursor moves onto entry i: the log ends there, or
\* entry i holds a timestamp no smaller than entry i-1.
NextTimes(times, i, max) ==
    {times} \cup (IF i < max
                  THEN {Extend(times, i, t) : t \in {u \in Times : u >= Floor(times, i)}}
                  ELSE {})

\* iSAM never hands the graph to the solver, so no factor is evaluated in it.
NoCall == [depth |-> 0, measurement |-> 0, z |-> 0, error |-> 0, jacobian |-> <<>>,
           made |-> FALSE]

\* ------------------------------------------------------------------- Init
Init ==
    /\ pc = "outer"
    /\ n_states \in StateCounts
    /\ iekf_times \in {[j \in {0} |-> t] : t \in Times}
    /\ imu_times \in FirstTimes(MaxImu)
    /\ depth_times \in FirstTimes(MaxDepth)
    /\ state_idx = 0
    /\ depth_idx = 0
    /\ imu_idx = 0
    /\ state = -1
    /\ sensor_type = "none"
    /\ sensor_time = Scaled(-1, 0)
    /\ state_time = Scaled(0, 0)
    /\ pim = <<>>
    /\ graph = <<>>
    /\ initial = EmptyFn
    /\ ops = <<>>
    /\ dispatched = <<>>
    /\ exported = 0
    /\ call = NoCall

\* The prior-state timestamps as the iteration at checkpoint k can find them:
\* entry k is drawn when the iteration starts.
ReadTimes(k) == {Extend(iekf_times, k, t) : t \in Times}

\* state_idx += 1 (lines 147, 223); entry state_idx-1 goes out of reach.
AdvanceState(times) ==
    /\ state_idx' = state_idx + 1
    /\ iekf_times' = Only(times, state_idx)

\* initial.insert(key, value) for each pair in turn; gtsam's Values raises
\* when the key is already present.
RECURSIVE InsertAll(_, _, _)
InsertAll(vals, log, kvs) ==
    IF kvs = <<>> THEN [vals |-> vals, ops |-> log, raised |-> FALSE]
    ELSE IF Head(kvs)[1] \in DOMAIN vals
         THEN [vals |-> vals, ops |-> log, raised |-> TRUE]
         ELSE InsertAll(Extend(vals, Head(kvs)[1], Head(kvs)[2]),
                        Append(log, InsertOp(Head(kvs)[1])), Tail(kvs))

\* lines 143-145
CheckpointDt(times, k) == Scaled(times[k] - times[k - 1], -9)

\* Variant that lets a zero interval through.
NonPositive_Strict(dt) == dt.m < 0

\* line 146
NonPositive(dt) == dt.m <= 0

\* lines 183-189
ImuDt(i, k) ==
    IF i > 0 THEN Scaled(imu_times[i] - imu_times[i - 1], -9)
    ELSE Scaled(iekf_times[k] - iekf_times[k - 1], 0)

\* the test of line 120 and the row lookup of line 121
InLoop == pc = "outer" /\ state_idx < NumCheckpoints
HasState == state_idx < n_states

\* Variant that takes the seeding branch at checkpoint 1 as well.
IsFirst_UpToOne(k) == k <= 1

\* line 122
IsFirst(k) == k = 0

\* Variant with the increment lost: the cursor stays on the sample.
NextIdx_Stuck(i) == i

\* imu_idx += 1, depth_idx += 1 (lines 194, 211)
NextIdx(i) == i + 1

\* line 203
MakeImuFactor(d, p) ==
    ImuFactor(X(d), V(d), X(d + 1), V(d + 1), BIAS_KEY, p)

\* Variant that leaves the velocity of the new node unseeded.
NewValues_PoseOnly(d, st) ==
    << <<X(d + 1), PoseSeed(st)>> >>

\* Variant that seeds the node of the checkpoint (the scheme of the disabled
\* lines 150-152) in place of the node the factor ends at.
NewValues_AtState(d, st) ==
    << <<X(st + 1), PoseSeed(st)>>, <<V(st + 1), VelSeed(st)>> >>

\* Variant that seeds the new node from the previous checkpoint (prev_state,
\* as the disabled lines 150-152 do).
NewValues_PrevState(d, st) ==
    << <<X(d + 1), PoseSeed(st - 1)>>, <<V(d + 1), VelSeed(st - 1)>> >>

\* lines 208-209
NewValues(d, st) ==
    << <<X(d + 1), PoseSeed(st)>>, <<V(d + 1), VelSeed(st)>> >>

\* ------------------------------------------------------- line 121 raising
StateIndexError ==
    /\ InLoop
    /\ ~HasState
    /\ pc' = "error"
    /\ UNCHANGED call
    /\ UNCHANGED <<n_states, iekf_times, imu_times, depth_times,
                   state_idx, depth_idx, imu_idx, state, sensor_type, sensor_time,
                   state_time, pim, graph, initial, ops, dispatched, exported>>

\* ------------------------------------------------ lines 121-140 and 223
Seed ==
    /\ InLoop
    /\ HasState
    /\ IsFirst(state_idx)
    /\ state' = state_idx
    /\ LET st == state_idx
           priorPoseFactor == PriorFactorPose3(X(state_idx), st)
           priorVelFactor == PriorFactorPoint3(V(state_idx), st)
           g == Append(Append(graph, priorPoseFactor), priorVelFactor)
           o == Append(Append(ops, AddOp(priorPoseFactor)), AddOp(priorVelFactor))
           r == InsertAll(initial, o, << <<X(state_idx), PoseSeed(st)>>,
                                         <<V(state_idx), VelSeed(st)>>,
                                         <<BIAS_KEY, BiasSeed>> >>)
       IN /\ graph' = g
          /\ initial' = r.vals
          /\ ops' = r.ops
          /\ IF r.raised
             THEN pc' = "error" /\ UNCHANGED <<state_idx, iekf_times>>
             ELSE pc' = "outer" /\ AdvanceState(iekf_times)
    /\ UNCHANGED call
    /\ UNCHANGED <<n_states, imu_times, depth_times,
                   depth_idx, imu_idx, sensor_type, sensor_time,
                   state_time, pim, dispatched, exported>>

\* ------------------------------------------------ lines 121, 142-148
SkipCheckpoint ==
    /\ InLoop
    /\ HasState
    /\ ~IsFirst(state_idx)
    /\ state' = state_idx
    /\ \E times \in ReadTimes(state_idx) :
          /\ NonPositive(CheckpointDt(times, state_idx))
          /\ AdvanceState(times)
    /\ UNCHANGED call
    /\ UNCHANGED <<pc, n_states, imu_times, depth_times,
                   depth_idx, imu_idx, sensor_type, sensor_time,
                   state_time, pim, graph, initial, ops, dispatched, exported>>

\* ------------------------------------------------ lines 121, 142-165
EnterCheckpoint ==
    /\ InLoop
    /\ HasState
    /\ ~IsFirst(state_idx)
    /\ state' = state_idx
    /\ \E times \in ReadTimes(state_idx) :
          /\ ~NonPositive(CheckpointDt(times, state_idx))
          /\ iekf_times' = times
          /\ IF imu_idx \in DOMAIN imu_times /\ depth_idx \in DOMAIN depth_times
             THEN /\ sensor_type' = SelectType(imu_times[imu_idx], depth_times[depth_idx])
                  /\ sensor_time' = SelectTime(imu_times[imu_idx], depth_times[depth_idx])
                  /\ state_time' = Scaled(times[state_idx], -18)
                  /\ pc' = "inner"
             ELSE /\ pc' = "error"      \* IndexError at line 156 or 157
                  /\ UNCHANGED <<sensor_type, sensor_time, state_time>>
    /\ UNCHANGED call
    /\ UNCHANGED <<n_states, imu_times, depth_times,
                   state_idx, depth_idx, imu_idx, pim, graph, initial, ops,
                   dispatched, exported>>

\* the test of line 167
InInner == pc = "inner" /\ Greater(state_time, sensor_time)

\* Variant that compares the heads as they stood before the cursor moved.
Reselect_Stale(i, d) ==
    IF i \in DOMAIN imu_times' /\ d \in DOMAIN depth_times'
    THEN /\ sensor_type' = SelectType(imu_times[imu_idx], depth_times[depth_idx])
         /\ sensor_time' = SelectTime(imu_times[imu_idx], depth_times[depth_idx])
         /\ pc' = "inner"
    ELSE /\ pc' = "error"
         /\ UNCHANGED <<sensor_type, sensor_time>>

\* lines 214-221 with the cursors at i and d
Reselect(i, d) ==
    IF i \in DOMAIN imu_times' /\ d \in DOMAIN depth_times'
    THEN /\ sensor_type' = SelectType(imu_times'[i], depth_times'[d])
         /\ sensor_time' = SelectTime(imu_times'[i], depth_times'[d])
         /\ pc' = "inner"
    ELSE /\ pc' = "error"         \* IndexError at line 214 or 215
         /\ UNCHANGED <<sensor_type, sensor_time>>

\* ------------------------------------------------ lines 168-194, 214-221
\* integrateMeasurement is the library's: handed dt <= 0 it either raises or
\* accumulates, depending on the gtsam release.
DispatchImu ==
    /\ InInner
    /\ sensor_type = "imu"
    /\ LET imu_dt == ImuDt(imu_idx, state_idx)
           ev == [type |-> "imu", idx |-> imu_idx, time |-> imu_times[imu_idx],
                  dt |-> imu_dt]
       IN /\ dispatched' = Append(dispatched, ev)
          /\ \/ /\ pim' = Append(pim, [idx |-> imu_idx, dt |-> imu_dt])
                /\ imu_idx' = NextIdx(imu_idx)
                /\ imu_times' \in NextTimes(imu_times, NextIdx(imu_idx), MaxImu)
                /\ depth_times' = depth_times
                /\ Reselect(NextIdx(imu_idx), depth_idx)
             \/ /\ NonPositive(imu_dt)
                /\ pc' = "error"
                /\ UNCHANGED <<pim, imu_idx, imu_times, depth_times,
                               sensor_type, sensor_time>>
    /\ UNCHANGED call
    /\ UNCHANGED <<n_states, iekf_times, state_idx, depth_idx,
                   state, state_time, graph, initial, ops, exported>>

\* ------------------------------------------------ lines 195-221
DispatchDepth ==
    /\ InInner
    /\ sensor_type = "depth"
    /\ LET depth_factor == CustomFactor(X(depth_idx), depth_idx)
           imu_factor == MakeImuFactor(depth_idx, pim)
           ev == [type |-> "depth", idx |-> depth_idx,
                  time |-> depth_times[depth_idx], dt |-> Scaled(0, 0)]
           o == Append(Append(ops, AddOp(depth_factor)), AddOp(imu_factor))
           r == InsertAll(initial, o, NewValues(depth_idx, state))
       IN /\ dispatched' = Append(dispatched, ev)
          /\ graph' = Append(Append(graph, depth_factor), imu_factor)
          /\ initial' = r.vals
          /\ ops' = r.ops
          /\ IF r.raised
             THEN /\ pc' = "error"
                  /\ UNCHANGED <<depth_idx, depth_times, imu_times,
                                 sensor_type, sensor_time>>
             ELSE /\ depth_idx' = NextIdx(depth_idx)
                  /\ depth_times' \in NextTimes(depth_times, NextIdx(depth_idx), MaxDepth)
                  /\ imu_times' = imu_times
                  /\ Reselect(imu_idx, NextIdx(depth_idx))
    /\ UNCHANGED call
    /\ UNCHANGED <<n_states, iekf_times, state_idx, imu_idx,
                   state, state_time, pim, exported>>

\* ------------------------------------------------ line 167 false, line 223
\* sensor_type, sensor_time and state_time are assigned afresh at lines 155-164
\* before the next read, so their values are dropped on leaving the inner loop.
CloseCheckpoint ==
    /\ pc = "inner"
    /\ ~Greater(state_time, sensor_time)
    /\ pc' = "outer"
    /\ AdvanceState(iekf_times)
    /\ sensor_type' = "none"
    /\ sensor_time' = Scaled(-1, 0)
    /\ state_time' = Scaled(0, 0)
    /\ UNCHANGED call
    /\ UNCHANGED <<n_states, imu_times, depth_times,
                   depth_idx, imu_idx, state, pim, graph, initial, ops,
                   dispatched, exported>>

\* ------------------------------------------------ line 120 false, line 224
Finish ==
    /\ pc = "outer"
    /\ ~(state_idx < NumCheckpoints)
    /\ exported' = exported + 1
    /\ pc' = "done"
    /\ UNCHANGED call
    /\ UNCHANGED <<n_states, iekf_times, imu_times, depth_times,
                   state_idx, depth_idx, imu_idx, state, sensor_type, sensor_time,
                   state_time, pim, graph, initial, ops, dispatched>>

Next ==
    \/ StateIndexError
    \/ Seed
    \/ SkipCheckpoint
    \/ EnterCheckpoint
    \/ DispatchImu
    \/ DispatchDepth
    \/ CloseCheckpoint
    \/ Finish

Spec == Init /\ [][Next]_vars

\* ------------------------------------------- depth factor, lines 85-101, 201
MaxReading == 3        \* largest depth reading and pose height, in metres
Readings == -MaxReading .. MaxReading
Heights == -MaxReading .. MaxReading

\* line 201: the factor is bound to np.array([-1 * depth])
DepthMeasurement_Raw(depth) == depth

DepthMeasurement(depth) == -1 * depth

\* line 96: error = measurement - estimate.z()
depth_error(measurement, z) == measurement - z

\* lines 98-99: val = np.ones((1, 6)); val[0, 2] = 1
depth_jacobian == [[c \in 1 .. 6 |-> 1] EXCEPT ![3] = 1]

\* The solver evaluates a depth factor built at line 201 from a raw reading,
\* at a pose estimate of height z, with or without asking for the Jacobian
\* (line 97).
DepthErrorCall ==
    /\ ~call.made
    /\ \E depth \in Readings, z \in Heights, wanted \in BOOLEAN :
          LET measurement == DepthMeasurement(depth) IN
          call' = [depth |-> depth, measurement |-> measurement, z |-> z,
                   error |-> depth_error(measurement, z),
                   jacobian |-> IF wanted THEN depth_jacobian ELSE <<>>,
                   made |-> TRUE]
    /\ UNCHANGED <<pc, n_states, iekf_times, imu_times, depth_times, state_idx,
                   depth_idx, imu_idx, state, sensor_type, sensor_time,
                   state_time, pim, graph, initial, ops, dispatched, exported>>

DepthSpec == Init /\ [][DepthErrorCall]_vars

\* =================================================================== claims
IsImu(e) == e.type = "imu"
IsDepth(e) == e.type = "depth"
ImuEvents == SelectSeq(dispatched, IsImu)
DepthEvents == SelectSeq(dispatched, IsDepth)
Ended == pc \in {"done", "error"}

\* C1: over the whole run, IMU and depth events together are dispatched in
\* non-decreasing timestamp order (a chronological merge of the two sorted
\* streams).
C1_MergeOrder ==
    \A j \in 1 .. Len(dispatched) - 1 : dispatched[j].time <= dispatched[j + 1].time

\* Events of both streams, with rising timestamps, dispatched over more than
\* one checkpoint.
C1_Witness ==
    /\ Len(ImuEvents) >= 2
    /\ Len(DepthEvents) >= 1
    /\ dispatched[1].time < dispatched[Len(dispatched)].time
    /\ dispatched[1].type # dispatched[Len(dispatched)].type
    /\ state_idx >= 2

\* The dispatched events of each stream are its samples 0, 1, 2, ... in
\* stream order with their own timestamps, up to the cursor (and the sample
\* under the cursor when the run stopped inside its handler).
C2_LogInOrder ==
    /\ \A j \in 1 .. Len(ImuEvents) :
          ImuEvents[j].idx = j - 1 /\ ImuEvents[j].time = imu_times[j - 1]
    /\ \A j \in 1 .. Len(DepthEvents) :
          DepthEvents[j].idx = j - 1 /\ DepthEvents[j].time = depth_times[j - 1]
    /\ Len(ImuEvents) = imu_idx \/ (Len(ImuEvents) = imu_idx + 1 /\ pc = "error")
    /\ Len(DepthEvents) = depth_idx

\* A step moves at most one cursor, forward by one, and only together with
\* the dispatch of the sample the cursor leaves; a dispatch that returns
\* moves exactly one cursor.
C2_CursorStep ==
    /\ imu_idx' \in {imu_idx, imu_idx + 1}
    /\ depth_idx' \in {depth_idx, depth_idx + 1}
    /\ imu_idx' = imu_idx \/ depth_idx' = depth_idx
    /\ imu_idx' # imu_idx =>
          /\ Len(dispatched') = Len(dispatched) + 1
          /\ dispatched'[Len(dispatched')].type = "imu"
          /\ dispatched'[Len(dispatched')].idx = imu_idx
    /\ depth_idx' # depth_idx =>
          /\ Len(dispatched') = Len(dispatched) + 1
          /\ dispatched'[Len(dispatched')].type = "depth"
          /\ dispatched'[Len(dispatched')].idx = depth_idx
    /\ dispatched' # dispatched =>
          /\ Len(dispatched') = Len(dispatched) + 1
          /\ imu_idx' + depth_idx' = imu_idx + depth_idx + 1
             \/ (pc' = "error" /\ dispatched'[Len(dispatched')].dt.m <= 0)

C3_TiesImuFirst ==
    (/\ pc = "inner"
     /\ imu_times[imu_idx] = depth_times[depth_idx]) => sensor_type = "imu"

\* C4: after every completed step, and in the exported graph, every node a
\* factor refers to (pose, velocity, shared bias) has an initial value.
C4_WellFormed ==
    \A p \in 1 .. Len(graph) : KeySet(graph[p]) \subseteq DOMAIN initial

\* An exported graph holding a depth factor and its motion factor.
C4_Witness ==
    /\ pc = "done"
    /\ exported = 1
    /\ \E p \in 1 .. Len(graph) : graph[p].type = "Imu"
    /\ \E p \in 1 .. Len(graph) : graph[p].type = "Depth"

FactorsOf(t) == {p \in 1 .. Len(graph) : graph[p].type = t}

\* C5: once seeded, node 0 carries exactly one PriorPose and exactly one
\* PriorVelocity factor, and no other node ever carries a prior.
C5_PriorsOnlyAtZero ==
    /\ \A p \in FactorsOf("PriorPose") : graph[p].keys = <<X(0)>>
    /\ \A p \in FactorsOf("PriorVelocity") : graph[p].keys = <<V(0)>>
    /\ state_idx >= 1 =>
          /\ Cardinality(FactorsOf("PriorPose")) = 1
          /\ Cardinality(FactorsOf("PriorVelocity")) = 1

\* A finished run: all checkpoints gone by, events of both streams handled.
C5_Witness ==
    /\ pc = "done"
    /\ depth_idx >= 1
    /\ imu_idx >= 1

NodeIndices == {k[2] : k \in {k \in DOMAIN initial : k[1] \in {"x", "v"}}}
Spans(f, i, j) == f.type = "Imu" /\ f.keys = <<X(i), V(i), X(j), V(j), BIAS_KEY>>

\* C6: a DepthFactor at i and the ImuMotionFactor i -> i+1 enter the graph in
\* the same step (side by side), and every seeded node j >= 1 is the end node
\* of an ImuMotionFactor j-1 -> j.
C6_NoDanglingNode ==
    /\ \A j \in NodeIndices :
          j >= 1 => \E p \in 1 .. Len(graph) : Spans(graph[p], j - 1, j)
    /\ \A p \in FactorsOf("Depth") :
          /\ p < Len(graph)
          /\ \E i \in NodeIndices :
                graph[p].keys = <<X(i)>> /\ Spans(graph[p + 1], i, i + 1)
    /\ \A p \in FactorsOf("Imu") : p > 1 /\ graph[p - 1].type = "Depth"

\* Nodes 1 and 2 both created.
C6_Witness ==
    /\ X(2) \in DOMAIN initial
    /\ V(2) \in DOMAIN initial

\* Position in the dispatch log of depth event d, and the IMU samples
\* dispatched between depth event d-1 and depth event d.
DepthPos(d) ==
    CHOOSE j \in 1 .. Len(dispatched) : IsDepth(dispatched[j]) /\ dispatched[j].idx = d
ImuBetween(lo, hi) ==
    {dispatched[j].idx : j \in {j \in 1 .. Len(dispatched) :
                                  IsImu(dispatched[j]) /\ lo < j /\ j < hi}}
SinceLastFactor(d) ==
    ImuBetween(IF d = 0 THEN 0 ELSE DepthPos(d - 1), DepthPos(d))
Integrated(p) == {p[j].idx : j \in DOMAIN p}

\* C7: building an ImuMotionFactor resets the accumulator, so each factor
\* holds exactly the IMU samples integrated since the previous factor, and the
\* live accumulator holds exactly those integrated since the last factor.
C7_ResetAfterConsume ==
    /\ \A p \in FactorsOf("Imu") :
          Integrated(graph[p].pim) = SinceLastFactor(graph[p].keys[1][2])
    /\ pc # "error" =>
          Integrated(pim) =
              ImuBetween(IF depth_idx = 0 THEN 0 ELSE DepthPos(depth_idx - 1),
                         Len(dispatched) + 1)

\* The end-to-end scenario as far as a stopped run shows it: a prior-state log
\* of three checkpoints, a depth log of exactly one sample lying strictly
\* between checkpoints 0 and 1, and an IMU log that can be one of five samples
\* inside the window.  Such a run stops while checkpoint 1 is being processed,
\* where the timestamps of checkpoints 0 and 1 are both in view.
C8_Scenario ==
    /\ n_states = 3
    /\ DOMAIN iekf_times = {0, 1}
    /\ DOMAIN depth_times = {0}
    /\ iekf_times[0] < depth_times[0]
    /\ depth_times[0] < iekf_times[1]
    /\ imu_idx \in DOMAIN imu_times
    /\ DOMAIN imu_times \subseteq 0 .. 4
    /\ \A j \in DOMAIN imu_times : iekf_times[0] <= imu_times[j]

C8_Expected ==
    /\ Cardinality(FactorsOf("PriorPose")) = 1
    /\ Cardinality(FactorsOf("PriorVelocity")) = 1
    /\ Cardinality(FactorsOf("Depth")) = 1
    /\ Cardinality(FactorsOf("Imu")) = 2
    /\ \E p \in 1 .. Len(graph) : Spans(graph[p], 0, 1)
    /\ \E p \in 1 .. Len(graph) : Spans(graph[p], 1, 2)
    /\ DOMAIN initial = {X(0), V(0), X(1), V(1), X(2), V(2), BIAS_KEY}

\* C8: the end-to-end scenario ends with 1 PriorPose, 1 PriorVelocity,
\* 1 DepthFactor, 2 ImuMotionFactors (0 -> 1 and 1 -> 2) and initial values
\* for nodes {0, 1, 2} plus the bias node.
C8_EndToEnd == (Ended /\ C8_Scenario) => C8_Expected

\* Processing a checkpoint k > 0 whose timestamp is not later than its
\* predecessor's adds no node and no factor, leaves both cursors and the
\* accumulator alone, raises nothing, and advances state_idx by one.
C9_SkipStep ==
    (/\ InLoop
     /\ HasState
     /\ state_idx > 0
     /\ state_idx \in DOMAIN iekf_times'
     /\ iekf_times'[state_idx] - iekf_times[state_idx - 1] <= 0)
    => /\ state_idx' = state_idx + 1
       /\ pc' = "outer"
       /\ UNCHANGED <<graph, initial, ops, imu_idx, depth_idx, pim, dispatched>>

\* C9: every step of the run that processes such a checkpoint is a skip step.
C9_SkipNonPositive == [][C9_SkipStep]_vars

\* A checkpoint k >= 1 with timestamp 0 is never later than its predecessor:
\* it has just been skipped, with a graph and an accumulator already built.
C9_Witness ==
    /\ pc = "outer"
    /\ state_idx >= 3
    /\ iekf_times[state_idx - 1] = 0
    /\ depth_idx >= 1
    /\ imu_idx >= 1

\* C10: integrateMeasurement is never handed an interval <= 0, for the first
\* IMU sample as for one whose timestamp repeats its predecessor's.
C10_PositiveInterval ==
    \A j \in 1 .. Len(dispatched) :
        IsImu(dispatched[j]) => dispatched[j].dt.m > 0

\* C11: a run is never stopped by a cursor that has run off its log while a
\* checkpoint is still to be handled: the code reads no sample past the end
\* of a log, and a log that runs out ends the run at "done".  (A run stopped
\* with a checkpoint at hand and a cursor past its log was stopped by the
\* read at that cursor.)
C11_ExhaustionEndsRun ==
    (pc = "error" /\ HasState)
    => (imu_idx \in DOMAIN imu_times /\ depth_idx \in DOMAIN depth_times)

\* C12, as stated: the depth residual is the supplied measurement minus the
\* pose's height, the call site supplying the negated raw reading, so that a
\* pose at height 2 and a raw reading of 2 give residual 0.
C12_ZeroAtEqualHeight ==
    call.made
    => /\ call.measurement = -1 * call.depth
       /\ call.error = call.measurement - call.z
       /\ (call.z = 2 /\ call.depth = 2) => call.error = 0

\* C12, amended: the depth residual is the supplied measurement minus the
\* pose's height, the call site supplying the negated raw reading, so that a
\* raw reading of 2 gives residual 0 for a pose at height -2, and residual -4
\* for a pose at height 2.
C12_ResidualSign ==
    call.made
    => /\ call.measurement = -1 * call.depth
       /\ call.error = call.measurement - call.z
       /\ (call.z = -2 /\ call.depth = 2) => call.error = 0
       /\ (call.z = 2 /\ call.depth = 2) => call.error = -4

\* A factor built from the raw reading 2 has been evaluated at height -2.
C12_Witness == call.made /\ call.depth = 2 /\ call.z = -2 /\ call.error = 0

\* C13: whenever the Jacobian is asked for, it is a row of six entries whose
\* third entry is 1 and whose other entries are 0, whatever the pose.
C13_JacobianRow ==
    (call.made /\ call.jacobian # <<>>)
    => call.jacobian = <<0, 0, 1, 0, 0, 0>>

\* C14: with at least 10 checkpoints in the state source (the logs are
\* non-decreasing by construction), the run stops nowhere but at "done": from
\* every other state a step is possible, and "done" is reached with exactly
\* 10 checkpoints visited and the graph exported exactly once.
C14_StopsOnlyAtDone ==
    n_states >= NumCheckpoints
    => /\ pc = "done" \/ ENABLED Next
       /\ pc = "done" => (state_idx = NumCheckpoints /\ exported = 1)
       /\ pc # "done" => exported = 0

LastEvent == dispatched'[Len(dispatched')]
HeadTimes == {imu_times[imu_idx], depth_times[depth_idx]}

\* A dispatch made while checkpoint state_idx is processed: never at
\* checkpoint 0, and of an event strictly older than the checkpoint.
C15_DispatchStep ==
    dispatched' # dispatched
    => /\ state_idx > 0
       /\ pc = "inner"
       /\ LastEvent.time < iekf_times[state_idx]

\* The end of a checkpoint that was entered: neither head is older than it.
C15_CloseStep ==
    (pc = "inner" /\ pc' = "outer")
    => /\ state_idx > 0
       /\ \A t \in HeadTimes : t >= iekf_times[state_idx]

C16_CloseStep ==
    (pc = "inner" /\ pc' = "outer")
    => /\ Len(graph') = Len(graph) + 1
       /\ graph'[Len(graph')].type = "Imu"

\* C16: every checkpoint k > 0 that is not skipped is closed by adding an
\* ImuMotionFactor that spans it, whether or not a depth event fell inside it.
C16_CloseOut == [][C16_CloseStep]_vars

\* Every add of a factor comes after the insert of each key it refers to.
C17_InsertedBefore(p) ==
    \A k \in ops[p].keys :
        \E q \in 1 .. p - 1 : ops[q].op = "insert" /\ k \in ops[q].keys

\* C17: operation by operation, the pose and velocity values of index i are
\* inserted before any factor referring to i is added; in the depth step the
\* values of depth_idx + 1 are in place before the ImuMotionFactor is added.
C17_SeedBeforeReference ==
    \A p \in 1 .. Len(ops) : ops[p].op = "add" => C17_InsertedBefore(p)

\* A depth dispatch that returns seeds node depth_idx + 1 with the pose and
\* the velocity of the checkpoint being processed.
C18_DepthStep ==
    depth_idx' # depth_idx
    => /\ X(depth_idx + 1) \notin DOMAIN initial
       /\ V(depth_idx + 1) \notin DOMAIN initial
       /\ X(depth_idx + 1) \in DOMAIN initial'
       /\ V(depth_idx + 1) \in DOMAIN initial'
       /\ initial'[X(depth_idx + 1)] = PoseSeed(state_idx)
       /\ initial'[V(depth_idx + 1)] = VelSeed(state_idx)

\* A seed, once inserted, stays as it is.
C18_SeedsKept ==
    \A k \in DOMAIN initial : k \in DOMAIN initial' /\ initial'[k] = initial[k]

\* Node 0 is seeded from checkpoint 0.
C18_NodeZero ==
    /\ X(0) \in DOMAIN initial => initial[X(0)] = PoseSeed(0)
    /\ V(0) \in DOMAIN initial => initial[V(0)] = VelSeed(0)
    /\ state_idx >= 1 => {X(0), V(0)} \subseteq DOMAIN initial

\* C18: the node created by a depth event (index depth_idx + 1) is seeded with
\* the pose and velocity of the checkpoint whose inner loop dispatched the
\* event, so the nodes created inside one checkpoint share their seed; node 0
\* is seeded from checkpoint 0.
C18_SeedSource == []C18_NodeZero /\ [][C18_DepthStep /\ C18_SeedsKept]_vars

\* Two nodes created inside the same checkpoint, a later one than the first,
\* with the same seed.
C18_Witness ==
    /\ {X(1), X(2), V(1), V(2)} \subseteq DOMAIN initial
    /\ initial[X(1)] = initial[X(2)]
    /\ initial[V(1)] = initial[V(2)]
    /\ initial[X(1)].state >= 2

Inserts == {p \in 1 .. Len(ops) : ops[p].op = "insert"}

\* C19: once the graph is seeded, and after every dispatch, the indices with
\* a pose value and those with a velocity value are both exactly
\* 0 .. depth_idx, the Depth factors and the Imu factors both number
\* depth_idx, whatever the checkpoint, and no key of the initial values
\* (pose, velocity or bias) is inserted twice.
C19_Counting ==
    /\ state_idx >= 1 =>
          /\ {k[2] : k \in {k \in DOMAIN initial : k[1] = "x"}} = 0 .. depth_idx
          /\ {k[2] : k \in {k \in DOMAIN initial : k[1] = "v"}} = 0 .. depth_idx
          /\ BIAS_KEY \in DOMAIN initial
    /\ Cardinality(FactorsOf("Depth")) = depth_idx
    /\ Cardinality(FactorsOf("Imu")) = depth_idx
    /\ \A p, q \in Inserts : ops[p].keys = ops[q].keys => p = q

\* One depth event handled, cursors and checkpoint index all different.
C19_Witness ==
    /\ pc = "inner"
    /\ depth_idx = 1
    /\ imu_idx >= 1
    /\ state_idx >= 3

====
